---- MODULE Spec2Model ----
(***************************************************************************)
(* A model of the retrieval pipeline of src/Python/rag_system.py: the      *)
(* chunker (_split_into_chunks), chunk identity and index_file, the batch  *)
(* walk of index_directory, and the context assembly of                    *)
(* get_context_for_query, search and the command line (main); and of the   *)
(* inference engine of src/Python/mlx_inference.py (load_model, generate,  *)
(* unload_model).  Strings are sequences of one-character strings.         *)
(***************************************************************************)
EXTENDS Integers, Sequences, FiniteSets, TLC

VARIABLES
    arg_text,        \* _split_into_chunks: the text argument
    arg_max,         \* _split_into_chunks: the max_chunk_size argument
    ret_chunks,      \* _split_into_chunks: the list returned
    chunk_pc,        \* "call" before the call, "returned" after it
    ctx_search,      \* get_context_for_query: what self.search returned
    ctx_max,         \* get_context_for_query: the max_context_length argument
    ctx_ret,         \* get_context_for_query: the string returned
    ctx_pc,          \* "call" before the call, "returned" after it
    pc,              \* the indexer: "idle", "walking" (inside the loop of
                     \* index_directory), "reported" (index_directory
                     \* returned), "indexed" (index_file returned)
    fs,              \* the file system: the state of each file
    store,           \* self.collection: chunk id -> record
    pending,         \* entries of directory.rglob("*") not yet visited
    extensions,      \* index_directory: extensions, defaults filled in
    exclude_patterns,\* index_directory: exclude_patterns, defaults filled in
    indexed_count,   \* index_directory: indexed_count
    skipped_count,   \* index_directory: skipped_count
    error_count,     \* index_directory: error_count
    report,          \* what index_directory returned
    stdout,          \* the notifications printed by the running command
    log,             \* history: the index_file calls of this index_directory
    last_call,       \* history: the latest index_file call made by itself
    edits,           \* number of edits of a.py so far
    faults,          \* number of collaborator failures so far
    s_pc,            \* search / get_context_for_query: "idle" or "returned"
    s_call,          \* the call made: method and arguments
    s_fault,         \* the collaborator that failed during the call
    s_trace,         \* history: the collaborator calls made and the store's
                     \* reply
    s_ret,           \* what search returned
    s_context,       \* what get_context_for_query returned
    cli_pc,          \* main of rag_system.py: "shell", "running", "exited"
    cli_command,     \* args: the command and its arguments
    cli_out,         \* the terminal result printed on standard output
    cli_exit,        \* the exit status of the process
    engine_pc,       \* MLXInferenceEngine: "idle", "loaded", "unloaded",
                     \* "generating", "completed", "generated"
    model,           \* self.model
    tokenizer,       \* self.tokenizer
    model_path,      \* self.model_path
    model_dirs,      \* the model directories that exist on disk
    load_call,       \* history: the latest load_model call
    events,          \* the events yielded by the generate call
    stream,          \* generate: the stream argument
    last_loaded      \* history: the path of the latest successful load
                     \* since the last unload

chunk_vars == <<arg_text, arg_max, ret_chunks, chunk_pc>>

ctx_vars == <<ctx_search, ctx_max, ctx_ret, ctx_pc>>

index_vars == <<pc, fs, store, pending, extensions, exclude_patterns,
                indexed_count, skipped_count, error_count, report, stdout,
                log, last_call, edits, faults>>

search_vars == <<s_pc, s_call, s_fault, s_trace, s_ret, s_context>>

cli_vars == <<cli_pc, cli_command, cli_out, cli_exit>>

engine_vars == <<engine_pc, model, tokenizer, model_path, model_dirs,
                 load_call, events, stream, last_loaded>>

\* search, the command line and the inference engine together
other_vars == <<search_vars, cli_vars, engine_vars>>

vars == <<chunk_vars, ctx_vars, index_vars, other_vars>>

----------------------------------------------------------------------------
(* Bounds of the model *)

\* longest text handed to the chunker
MaxTextLen == 8
\* largest max_chunk_size handed to the chunker
MaxChunkArg == 3
\* most hits in a search result handed to the context assembly
MaxHits == 3
\* longest document of such a hit
MaxDocLen == 2
\* largest max_context_length handed to the context assembly
MaxContextLength == 80
\* the add calls (by chunk number) that may be made to fail
MaxFaultAt == 1
\* most collaborator failures in one behaviour
MaxFaults == 1
\* most edits of a.py in one behaviour
MaxEdits == 1
\* number of files of the large directory
MaxDirFiles == 11
\* most token events of one generate call (max_tokens)
MaxTokens == 2

----------------------------------------------------------------------------
(* Strings *)

NL == "\n"

\* the grave accent (U+0060), one character; a TLA+ string cannot hold it
BT == "GRAVE"

Alphabet == {"a", " ", NL}

\* the characters str.split() treats as separators
IsSpace(c) == c \in {" ", NL, "\t"}

\* n copies of the character c
Rep(c, n) == [i \in 1..n |-> c]

\* the k-th smallest element of a finite set of integers
Kth(S, k) == CHOOSE i \in S : Cardinality({j \in S : j < i}) = k - 1

\* text.split('\n')
SplitLines(text) ==
    LET nl == {i \in 1..Len(text) : text[i] = NL}
        n == Cardinality(nl)
        pos(k) == IF k = 0 THEN 0
                  ELSE IF k = n + 1 THEN Len(text) + 1
                  ELSE Kth(nl, k)
    IN  [k \in 1..(n + 1) |-> SubSeq(text, pos(k - 1) + 1, pos(k) - 1)]

\* line.split(): the maximal runs of non-whitespace, in order
SplitWords(line) ==
    LET starts == {i \in 1..Len(line) :
                      ~IsSpace(line[i]) /\ (i = 1 \/ IsSpace(line[i - 1]))}
        ends == {i \in 1..Len(line) :
                      ~IsSpace(line[i]) /\ (i = Len(line) \/ IsSpace(line[i + 1]))}
    IN  [k \in 1..Cardinality(starts) |-> SubSeq(line, Kth(starts, k), Kth(ends, k))]

\* sep.join(parts)
RECURSIVE Join(_, _)
Join(sep, parts) ==
    IF parts = <<>> THEN <<>>
    ELSE IF Len(parts) = 1 THEN parts[1]
    ELSE parts[1] \o sep \o Join(sep, Tail(parts))

----------------------------------------------------------------------------
(* The chunker: RAGSystem._split_into_chunks *)

\* "if line_size > max_chunk_size"
LineTooLong(line_size, max_chunk_size) == line_size > max_chunk_size

\* "if word_size + len(word) + 1 > max_chunk_size"
WordOverflows(word_size, word, max_chunk_size) ==
    word_size + Len(word) + 1 > max_chunk_size

\* a line test that leaves the separator out of the count
LineOverflowsNoSep(current_size, line_size, max_chunk_size) ==
    current_size + line_size > max_chunk_size

\* "elif current_size + line_size + 1 > max_chunk_size"
LineOverflows(current_size, line_size, max_chunk_size) ==
    current_size + line_size + 1 > max_chunk_size

\* the loop over the words of one long line, and the flush after it
RECURSIVE WordLoop(_, _, _, _, _)
WordLoop(words, chunks, word_chunk, word_size, max_chunk_size) ==
    IF words = <<>>
    THEN IF word_chunk # <<>>
         THEN Append(chunks, Join(<<" ">>, word_chunk))
         ELSE chunks
    ELSE LET word == Head(words)
         IN  IF WordOverflows(word_size, word, max_chunk_size)
             THEN WordLoop(Tail(words),
                           Append(chunks, Join(<<" ">>, word_chunk)),
                           <<word>>, Len(word), max_chunk_size)
             ELSE WordLoop(Tail(words), chunks,
                           Append(word_chunk, word),
                           word_size + Len(word) + 1, max_chunk_size)

\* the loop over the lines, and the flush of the remaining chunk
RECURSIVE LineLoop(_, _, _, _, _)
LineLoop(lines, chunks, current_chunk, current_size, max_chunk_size) ==
    IF lines = <<>>
    THEN IF current_chunk # <<>>
         THEN Append(chunks, Join(<<NL>>, current_chunk))
         ELSE chunks
    ELSE LET line == Head(lines)
             line_size == Len(line)
         IN  IF LineTooLong(line_size, max_chunk_size)
             THEN LET saved == IF current_chunk # <<>>
                               THEN Append(chunks, Join(<<NL>>, current_chunk))
                               ELSE chunks
                  IN  LineLoop(Tail(lines),
                               WordLoop(SplitWords(line), saved, <<>>, 0,
                                        max_chunk_size),
                               <<>>, 0, max_chunk_size)
             ELSE IF LineOverflows(current_size, line_size, max_chunk_size)
             THEN LineLoop(Tail(lines),
                           Append(chunks, Join(<<NL>>, current_chunk)),
                           <<line>>, line_size, max_chunk_size)
             ELSE LineLoop(Tail(lines), chunks,
                           Append(current_chunk, line),
                           current_size + line_size + 1, max_chunk_size)

_split_into_chunks(text, max_chunk_size) ==
    LineLoop(SplitLines(text), <<>>, <<>>, 0, max_chunk_size)

----------------------------------------------------------------------------
(* Calls of the chunker on bounded inputs *)

Texts == UNION {[1..n -> Alphabet] : n \in 0..MaxTextLen}

\* the document of the specification's scenario: lines of 1000, 1000 and 500
ScenarioText ==
    Rep("a", 1000) \o <<NL>> \o Rep("b", 1000) \o <<NL>> \o Rep("c", 500)

ChunkCall ==
    /\ \/ arg_text \in Texts /\ arg_max \in 0..MaxChunkArg
       \/ arg_text = ScenarioText /\ arg_max = 1000
    /\ ret_chunks = <<>>
    /\ chunk_pc = "call"

\* the chunker harness when another part of the program is explored
ChunkIdle ==
    /\ arg_text = <<>>
    /\ arg_max = 0
    /\ ret_chunks = <<>>
    /\ chunk_pc = "idle"

SplitCall ==
    /\ chunk_pc = "call"
    /\ ret_chunks' = _split_into_chunks(arg_text, arg_max)
    /\ chunk_pc' = "returned"
    /\ UNCHANGED <<arg_text, arg_max, ctx_vars, index_vars, other_vars>>

----------------------------------------------------------------------------
(* Context assembly: RAGSystem.get_context_for_query, after self.search *)

\* the f-string of one context entry
FormatEntry(result) ==
    <<NL, "#", " ", "F", "r", "o", "m", " ">>
        \o result.metadata.file_name
        \o <<" ", "(">>
        \o result.metadata.file_extension
        \o <<")", NL, BT, BT, BT, NL>>
        \o result.document
        \o <<NL, BT, BT, BT, NL>>

\* "if current_length + len(entry) > max_context_length: break"
EntryOverflows(current_length, entry, max_context_length) ==
    current_length + Len(entry) > max_context_length

\* a loop that skips an entry that does not fit and goes on to the next
RECURSIVE ContextLoopSkip(_, _, _, _)
ContextLoopSkip(results, context_parts, current_length, max_context_length) ==
    IF results = <<>>
    THEN context_parts
    ELSE LET entry == FormatEntry(Head(results))
         IN  IF EntryOverflows(current_length, entry, max_context_length)
             THEN ContextLoopSkip(Tail(results), context_parts,
                                  current_length, max_context_length)
             ELSE ContextLoopSkip(Tail(results), Append(context_parts, entry),
                                  current_length + Len(entry),
                                  max_context_length)

\* the loop over search_result["results"]; it yields context_parts
RECURSIVE ContextLoop(_, _, _, _)
ContextLoop(results, context_parts, current_length, max_context_length) ==
    IF results = <<>>
    THEN context_parts
    ELSE LET entry == FormatEntry(Head(results))
         IN  IF EntryOverflows(current_length, entry, max_context_length)
             THEN context_parts
             ELSE ContextLoop(Tail(results), Append(context_parts, entry),
                              current_length + Len(entry), max_context_length)

\* get_context_for_query, given what self.search returned
get_context_for_query(search_result, max_context_length) ==
    IF ~search_result.success
    THEN <<>>
    ELSE Join(<<NL>>, ContextLoop(search_result.results, <<>>, 0,
                                  max_context_length))

----------------------------------------------------------------------------
(* Calls of the context assembly on bounded inputs *)

HitDocs == {Rep("a", n) : n \in 0..MaxDocLen}

HitMetadatas ==
    { [file_name |-> <<"a", ".", "p", "y">>, file_extension |-> <<".", "p", "y">>],
      [file_name |-> <<"R">>, file_extension |-> <<>>] }

Hits == [document : HitDocs, metadata : HitMetadatas]

HitSeqs == UNION {[1..n -> Hits] : n \in 0..MaxHits}

SearchResults ==
    {[success |-> TRUE, results |-> r] : r \in HitSeqs}
        \cup {[success |-> FALSE, results |-> <<>>]}

ContextCall ==
    /\ ctx_search \in SearchResults
    /\ ctx_max \in 0..MaxContextLength
    /\ ctx_ret = <<>>
    /\ ctx_pc = "call"

\* the context harness when another part of the program is explored
ContextIdle ==
    /\ ctx_search = [success |-> FALSE, results |-> <<>>]
    /\ ctx_max = 0
    /\ ctx_ret = <<>>
    /\ ctx_pc = "idle"

GetContext ==
    /\ ctx_pc = "call"
    /\ ctx_ret' = get_context_for_query(ctx_search, ctx_max)
    /\ ctx_pc' = "returned"
    /\ UNCHANGED <<ctx_search, ctx_max, chunk_vars, index_vars, other_vars>>

----------------------------------------------------------------------------
(* Paths: pathlib.Path, as the strings str(path) gives *)

\* the last index of character c in s, 0 when there is none
LastIndexOf(c, s) ==
    LET at == {i \in 1..Len(s) : s[i] = c}
    IN  IF at = {} THEN 0 ELSE CHOOSE i \in at : \A j \in at : j <= i

\* Path.name: the final component
PathName(path) == SubSeq(path, LastIndexOf("/", path) + 1, Len(path))

\* Path.suffix: from the last dot of the name, unless that dot leads or ends it
PathSuffix(path) ==
    LET name == PathName(path)
        i == LastIndexOf(".", name)
    IN  IF 1 < i /\ i < Len(name) THEN SubSeq(name, i, Len(name)) ELSE <<>>

\* "pattern in str(file_path)"
Contains(pattern, s) ==
    \E i \in 1..(Len(s) - Len(pattern) + 1) :
        SubSeq(s, i, i + Len(pattern) - 1) = pattern

\* the elements of a sequence
Range(s) == {s[i] : i \in 1..Len(s)}

DefaultExtensions ==
    << <<".", "s", "w", "i", "f", "t">>,
       <<".", "m">>,
       <<".", "h">>,
       <<".", "p", "y">>,
       <<".", "j", "s">>,
       <<".", "t", "s">>,
       <<".", "j", "s", "o", "n">>,
       <<".", "m", "d">> >>

DefaultExcludePatterns ==
    << <<"b", "u", "i", "l", "d">>,
       <<"B", "u", "i", "l", "d">>,
       <<"D", "e", "r", "i", "v", "e", "d", "D", "a", "t", "a">>,
       <<".", "b", "u", "i", "l", "d">>,
       <<"n", "o", "d", "e", "_", "m", "o", "d", "u", "l", "e", "s">>,
       <<".", "g", "i", "t">>,
       <<"_", "_", "p", "y", "c", "a", "c", "h", "e", "_", "_">>,
       <<"t", "e", "s", "t">>,
       <<"T", "e", "s", "t">>,
       <<"t", "e", "s", "t", "s">>,
       <<"T", "e", "s", "t", "s">> >>

\* the file tree of the model: /r holds a.py, b.md and test/d.py; /x and
\* /r/z.py do not exist
RootDir == <<"/", "r">>
MissingDir == <<"/", "x">>
TestDir == RootDir \o <<"/", "t", "e", "s", "t">>
FileA == RootDir \o <<"/", "a", ".", "p", "y">>
FileB == RootDir \o <<"/", "b", ".", "m", "d">>
FileD == TestDir \o <<"/", "d", ".", "p", "y">>
MissingFile == RootDir \o <<"/", "z", ".", "p", "y">>

\* the tree below /r
TreeFiles == {FileA, FileB, FileD}

\* a directory of MaxDirFiles python files, /b/a.py, /b/b.py, ...
BigDir == <<"/", "b">>

BigFile(k) ==
    BigDir \o <<"/", <<"a", "b", "d", "e", "m", "p", "r", "s", "t", "x", "y",
                      "z">>[k], ".", "p", "y">>

BigFiles == {BigFile(k) : k \in 1..MaxDirFiles}

Files == TreeFiles \cup BigFiles
Directories == {RootDir, TestDir, BigDir}

\* directory.rglob("*"): every entry below the directory, in no fixed order
Rglob(directory) ==
    {p \in Files \cup Directories :
        Len(p) > Len(directory) /\ SubSeq(p, 1, Len(directory) + 1) = directory \o <<"/">>}

----------------------------------------------------------------------------
(* File contents *)

\* one short line: one chunk
TextOne == <<"x", " ", "=", " ", "1">>
\* two lines of 600 characters: two chunks under max_chunk_size = 1000
TextTwo == Rep("a", 600) \o <<NL>> \o Rep("b", 600)
\* whitespace only
TextBlank == <<" ", NL>>

\* what open(..., encoding='utf-8').read() meets: text, or bytes that do not
\* decode
FileStates ==
    { [kind |-> "text", content |-> TextOne],
      [kind |-> "text", content |-> TextTwo],
      [kind |-> "text", content |-> <<>>],
      [kind |-> "text", content |-> TextBlank],
      [kind |-> "binary", content |-> <<>>] }

\* the first position from i on that holds no whitespace (Len + 1 if none)
RECURSIVE SkipSpaceRight(_, _)
SkipSpaceRight(content, i) ==
    IF i > Len(content) \/ ~IsSpace(content[i]) THEN i
    ELSE SkipSpaceRight(content, i + 1)

\* the last position up to i that holds no whitespace (0 if none)
RECURSIVE SkipSpaceLeft(_, _)
SkipSpaceLeft(content, i) ==
    IF i < 1 \/ ~IsSpace(content[i]) THEN i
    ELSE SkipSpaceLeft(content, i - 1)

\* content.strip()
Strip(content) ==
    SubSeq(content, SkipSpaceRight(content, 1), SkipSpaceLeft(content, Len(content)))

----------------------------------------------------------------------------
(* Chunk identity: lines 192-203 of index_file *)

\* the two hexadecimal digits of a character's code
HexPair(c) ==
    CASE c = "." -> <<"2", "e">>
      [] c = "/" -> <<"2", "f">>
      [] c = "a" -> <<"6", "1">>
      [] c = "b" -> <<"6", "2">>
      [] c = "d" -> <<"6", "4">>
      [] c = "e" -> <<"6", "5">>
      [] c = "m" -> <<"6", "d">>
      [] c = "p" -> <<"7", "0">>
      [] c = "r" -> <<"7", "2">>
      [] c = "s" -> <<"7", "3">>
      [] c = "t" -> <<"7", "4">>
      [] c = "x" -> <<"7", "8">>
      [] c = "y" -> <<"7", "9">>
      [] c = "z" -> <<"7", "a">>

RECURSIVE HexEncode(_)
HexEncode(s) == IF s = <<>> THEN <<>> ELSE HexPair(Head(s)) \o HexEncode(Tail(s))

\* hashlib.md5(str(file_path).encode()).hexdigest(): 32 hexadecimal digits.
\* The digest is taken as collision-free: the model uses the hexadecimal
\* spelling of the path, padded to the digest's width, which is injective on
\* paths of at most 16 characters.
Md5HexDigest(s) ==
    LET h == HexEncode(s)
    IN  h \o Rep("0", 32 - Len(h))

\* str(i) of a non-negative integer
RECURSIVE Decimal(_)
Decimal(i) ==
    LET digit(d) == <<"0", "1", "2", "3", "4", "5", "6", "7", "8", "9">>[d + 1]
    IN  IF i < 10 THEN <<digit(i)>>
        ELSE Decimal(i \div 10) \o <<digit(i % 10)>>

\* an id that leaves the chunk index out
ChunkIdNoIndex(file_id, i) == file_id

\* chunk_id = f"{file_id}_{i}"
ChunkId(file_id, i) == file_id \o <<"_">> \o Decimal(i)

----------------------------------------------------------------------------
(* The vector store (chromadb collection "codebase") and index_file *)

\* max_chunk_size=1000 in index_file
IndexChunkSize == 1000

\* "if indexed_count % 10 == 0"
ProgressEvery == 10

EmptyCollection == <<>>

\* self.collection.add(ids=[chunk_id], ..., documents=[chunk], metadatas=[...])
\* on a chromadb persistent client: a record is inserted under a new id, and
\* an add under an id the collection already holds is ignored (the record it
\* holds stays as it is).  The embedding is left out of the record.
CollectionAdd(collection, chunk_id, document, metadata) ==
    IF chunk_id \in DOMAIN collection
    THEN collection
    ELSE collection @@ (chunk_id :> [document |-> document, metadata |-> metadata])

\* what can go wrong in the collaborators during one index_file call:
\* embedding_model.encode raises, or the add call of chunk number `at` raises
Faults ==
    {[kind |-> "none", at |-> 0], [kind |-> "encode", at |-> 0]}
        \cup {[kind |-> "add", at |-> k] : k \in 0..MaxFaultAt}

NoFault == [kind |-> "none", at |-> 0]

SuccessResult(n) == [success |-> TRUE, type |-> "", chunks |-> n]

FailureResult(type) == [success |-> FALSE, type |-> type, chunks |-> 0]

\* the loop over enumerate(zip(chunks, embeddings)), from chunk number i on;
\* ids are the chunk ids it has computed
RECURSIVE AddLoop(_, _, _, _, _, _, _)
AddLoop(file_path, file_id, chunks, i, collection, ids, fault) ==
    IF i >= Len(chunks)
    THEN [raised |-> FALSE, collection |-> collection, ids |-> ids]
    ELSE LET chunk_id == ChunkId(file_id, i)
             metadata == [file_path |-> file_path,
                          file_name |-> PathName(file_path),
                          file_extension |-> PathSuffix(file_path),
                          chunk_index |-> i,
                          total_chunks |-> Len(chunks)]
         IN  IF fault.kind = "add" /\ fault.at = i
             THEN [raised |-> TRUE, collection |-> collection,
                   ids |-> Append(ids, chunk_id)]
             ELSE AddLoop(file_path, file_id, chunks, i + 1,
                          CollectionAdd(collection, chunk_id, chunks[i + 1], metadata),
                          Append(ids, chunk_id), fault)

\* RAGSystem.index_file: the result it returns, the collection it leaves and
\* the chunk ids it computed.  Every exception is caught and turned into a
\* result (lines 224-229); nothing is raised to the caller.
index_file(file_path, files, collection, fault) ==
    IF file_path \notin DOMAIN files
    THEN [result |-> FailureResult("path_error"), collection |-> collection,
          ids |-> <<>>]
    ELSE IF files[file_path].kind = "binary"
    THEN [result |-> FailureResult("encoding_error"), collection |-> collection,
          ids |-> <<>>]
    ELSE IF Strip(files[file_path].content) = <<>>
    THEN [result |-> FailureResult("empty_file"), collection |-> collection,
          ids |-> <<>>]
    ELSE LET file_id == Md5HexDigest(file_path)
             chunks == _split_into_chunks(files[file_path].content, IndexChunkSize)
         IN  IF fault.kind = "encode"
             THEN [result |-> FailureResult("indexing_error"),
                   collection |-> collection, ids |-> <<>>]
             ELSE LET r == AddLoop(file_path, file_id, chunks, 0, collection,
                                   <<>>, fault)
                  IN  [result |-> IF r.raised
                                  THEN FailureResult("indexing_error")
                                  ELSE SuccessResult(Len(chunks)),
                       collection |-> r.collection,
                       ids |-> r.ids]

----------------------------------------------------------------------------
(* The indexer as a state machine: index_directory, index_file, edits *)

NoReport == [success |-> FALSE, type |-> "none", indexed |-> 0, skipped |-> 0,
             errors |-> 0]

NoCall == [file_path |-> <<>>, result |-> FailureResult("none"), ids |-> <<>>]

\* an optional list argument: None, or a list
NoneArg == [is_none |-> TRUE, value |-> <<>>]

ListArg(l) == [is_none |-> FALSE, value |-> l]

ExtensionArgs == {NoneArg, ListArg(<< <<".", "p", "y">> >>)}

ExcludeArgs == {NoneArg, ListArg(<< <<".", "g", "i", "t">> >>)}

IndexIdle ==
    /\ pc = "idle"
    /\ fs = [f \in Files |-> [kind |-> "text", content |-> TextOne]]
    /\ store = EmptyCollection
    /\ pending = {}
    /\ extensions = <<>>
    /\ exclude_patterns = <<>>
    /\ indexed_count = 0
    /\ skipped_count = 0
    /\ error_count = 0
    /\ report = NoReport
    /\ stdout = <<>>
    /\ log = <<>>
    /\ last_call = NoCall
    /\ edits = 0
    /\ faults = 0

\* the program starts with an empty collection over a tree whose a.py is in
\* any of the file states
IndexInit ==
    /\ pc = "idle"
    /\ \E a \in FileStates :
          fs = [f \in Files |-> IF f = FileA THEN a
                                ELSE [kind |-> "text", content |-> TextOne]]
    /\ store = EmptyCollection
    /\ pending = {}
    /\ extensions = <<>>
    /\ exclude_patterns = <<>>
    /\ indexed_count = 0
    /\ skipped_count = 0
    /\ error_count = 0
    /\ report = NoReport
    /\ stdout = <<>>
    /\ log = <<>>
    /\ last_call = NoCall
    /\ edits = 0
    /\ faults = 0

\* index_directory up to the loop (lines 75-99)
IndexDirectoryStart(directory_path, extensions_arg, exclude_arg) ==
    /\ pc = "idle"
    /\ IF directory_path \notin Directories
       THEN /\ pc' = "reported"
            /\ report' = [NoReport EXCEPT !.type = "path_error"]
            /\ UNCHANGED <<pending, extensions, exclude_patterns>>
       ELSE /\ pc' = "walking"
            /\ report' = NoReport
            /\ pending' = Rglob(directory_path)
            /\ extensions' = IF extensions_arg.is_none THEN DefaultExtensions
                             ELSE extensions_arg.value
            /\ exclude_patterns' = IF exclude_arg.is_none
                                   THEN DefaultExcludePatterns
                                   ELSE exclude_arg.value
    /\ indexed_count' = 0
    /\ skipped_count' = 0
    /\ error_count' = 0
    /\ stdout' = <<>>
    /\ log' = <<>>
    /\ UNCHANGED <<fs, store, last_call, edits, faults, chunk_vars, ctx_vars, other_vars>>

\* "if not file_path.is_file(): continue"
VisitDirectory(file_path) ==
    /\ pc = "walking"
    /\ file_path \in pending
    /\ file_path \notin Files
    /\ pending' = pending \ {file_path}
    /\ UNCHANGED <<pc, fs, store, extensions, exclude_patterns, indexed_count,
                   skipped_count, error_count, report, stdout, log, last_call,
                   edits, faults, chunk_vars, ctx_vars, other_vars>>

Excluded(file_path, patterns) ==
    \E k \in 1..Len(patterns) : Contains(patterns[k], file_path)

\* "if file_path.suffix not in extensions" and "if any(pattern in
\* str(file_path) ...)": the file is counted as skipped
VisitSkipped(file_path) ==
    /\ pc = "walking"
    /\ file_path \in pending
    /\ file_path \in Files
    /\ \/ PathSuffix(file_path) \notin Range(extensions)
       \/ Excluded(file_path, exclude_patterns)
    /\ pending' = pending \ {file_path}
    /\ skipped_count' = skipped_count + 1
    /\ UNCHANGED <<pc, fs, store, extensions, exclude_patterns, indexed_count,
                   error_count, report, stdout, log, last_call, edits, faults,
                   chunk_vars, ctx_vars, other_vars>>

\* a loop that stops at the first document whose indexing failed
NextPendingStopOnFailure(remaining, file_path, result) ==
    IF result.success THEN remaining \ {file_path} ELSE {}

\* "for file_path in directory.rglob("*")": whatever index_file returned for
\* this entry, the loop goes on with the entries left
NextPending(remaining, file_path, result) == remaining \ {file_path}

\* the try block of the loop (lines 118-128).  index_file raises nothing, so
\* the except branch (lines 130-135) is never entered and error_count stays.
VisitIndex(file_path, fault) ==
    /\ pc = "walking"
    /\ file_path \in pending
    /\ file_path \in Files
    /\ PathSuffix(file_path) \in Range(extensions)
    /\ ~Excluded(file_path, exclude_patterns)
    /\ fault = NoFault \/ faults < MaxFaults
    /\ LET r == index_file(file_path, fs, store, fault)
       IN  /\ store' = r.collection
           /\ log' = Append(log, [file_path |-> file_path, result |-> r.result,
                                  ids |-> r.ids])
    /\ faults' = IF fault = NoFault THEN faults ELSE faults + 1
    /\ indexed_count' = indexed_count + 1
    /\ stdout' = IF indexed_count' % ProgressEvery = 0
                 THEN Append(stdout, [type |-> "progress",
                                      indexed |-> indexed_count',
                                      current_file |-> PathName(file_path)])
                 ELSE stdout
    /\ pending' = NextPending(pending, file_path,
                              index_file(file_path, fs, store, fault).result)
    /\ UNCHANGED <<pc, fs, extensions, exclude_patterns, skipped_count,
                   error_count, report, last_call, edits, chunk_vars, ctx_vars, other_vars>>

\* the return after the loop (lines 137-143)
IndexDirectoryFinish ==
    /\ pc = "walking"
    /\ pending = {}
    /\ pc' = "reported"
    /\ report' = [success |-> TRUE, type |-> "", indexed |-> indexed_count,
                  skipped |-> skipped_count, errors |-> error_count]
    /\ UNCHANGED <<fs, store, pending, extensions, exclude_patterns,
                   indexed_count, skipped_count, error_count, stdout, log,
                   last_call, edits, faults, chunk_vars, ctx_vars, other_vars>>

\* a call of index_file by itself
IndexFileCall(file_path, fault) ==
    /\ pc = "idle"
    /\ fault = NoFault \/ faults < MaxFaults
    /\ LET r == index_file(file_path, fs, store, fault)
       IN  /\ store' = r.collection
           /\ last_call' = [file_path |-> file_path, result |-> r.result,
                            ids |-> r.ids]
    /\ faults' = IF fault = NoFault THEN faults ELSE faults + 1
    /\ pc' = "indexed"
    /\ UNCHANGED <<fs, pending, extensions, exclude_patterns, indexed_count,
                   skipped_count, error_count, report, stdout, log, edits,
                   chunk_vars, ctx_vars, other_vars>>

\* the caller takes the result; the next command starts from here
Return ==
    /\ pc \in {"reported", "indexed"}
    /\ pc' = "idle"
    /\ report' = NoReport
    /\ last_call' = NoCall
    /\ log' = <<>>
    /\ stdout' = <<>>
    /\ pending' = {}
    /\ extensions' = <<>>
    /\ exclude_patterns' = <<>>
    /\ indexed_count' = 0
    /\ skipped_count' = 0
    /\ error_count' = 0
    /\ UNCHANGED <<fs, store, edits, faults, chunk_vars, ctx_vars, other_vars>>

\* the user edits a.py between two commands
EditFile(state) ==
    /\ pc = "idle"
    /\ edits < MaxEdits
    /\ state # fs[FileA]
    /\ fs' = [fs EXCEPT ![FileA] = state]
    /\ edits' = edits + 1
    /\ UNCHANGED <<pc, store, pending, extensions, exclude_patterns,
                   indexed_count, skipped_count, error_count, report, stdout,
                   log, last_call, faults, chunk_vars, ctx_vars, other_vars>>

\* RAGSystem.clear_collection: the collection is deleted and created anew
ClearCollection ==
    /\ pc = "idle"
    /\ store' = EmptyCollection
    /\ UNCHANGED <<pc, fs, pending, extensions, exclude_patterns,
                   indexed_count, skipped_count, error_count, report, stdout,
                   log, last_call, edits, faults, chunk_vars, ctx_vars, other_vars>>

----------------------------------------------------------------------------
(* Retrieval: RAGSystem.search and get_context_for_query on the collection *)

FileE == RootDir \o <<"/", "e", ".", "m", "d">>
FileM == RootDir \o <<"/", "m", ".", "m", "d">>

\* the documents the searched collection is built from: two .py, three .md
Corpus == <<FileA, FileD, FileB, FileE, FileM>>

CorpusFiles == [f \in Range(Corpus) |-> [kind |-> "text", content |-> TextOne]]

\* index_file called on each path in turn
RECURSIVE IndexAll(_, _, _)
IndexAll(paths, files, collection) ==
    IF paths = <<>>
    THEN collection
    ELSE IndexAll(Tail(paths), files,
                  index_file(Head(paths), files, collection, NoFault).collection)

Queries == { <<"f", "o", "o">> }

\* file_extensions: None, an empty list, or a list of extensions
FilterArgs == {NoneArg, ListArg(<<>>), ListArg(<< <<".", "p", "y">> >>)}

\* the collaborator of search that raises: none, embedding_model.encode, or
\* collection.query
SearchFaults == {"none", "encode", "query"}

\* the orders in which the store can rank its records by distance to the
\* query embedding
RECURSIVE Orderings(_)
Orderings(ids) ==
    IF ids = {}
    THEN {<<>>}
    ELSE UNION {{<<id>> \o r : r \in Orderings(ids \ {id})} : id \in ids}

Rankings(collection) == Orderings(DOMAIN collection)

\* the distance of the record ranked k-th; neighbours may tie
Distance(k) == k \div 2

\* a filter that is never handed to the store
WhereFilterNone(file_extensions) == NoneArg

\* "where_filter = None; if file_extensions: where_filter =
\* {"file_extension": {"$in": file_extensions}}"
WhereFilter(file_extensions) ==
    IF file_extensions.is_none \/ file_extensions.value = <<>>
    THEN NoneArg
    ELSE ListArg(file_extensions.value)

\* the records a metadata predicate admits
Matching(collection, where) ==
    {id \in DOMAIN collection :
        \/ where.is_none
        \/ collection[id].metadata.file_extension \in Range(where.value)}

EmptyReply == [ids |-> <<>>, documents |-> <<>>, metadatas |-> <<>>,
               distances |-> <<>>]

\* self.collection.query(query_embeddings=[...], n_results=n_results,
\* where=where): the n_results nearest records the predicate admits, nearest
\* first; fewer when the collection holds fewer.  (The lists of the one query.)
CollectionQuery(collection, ranking, n_results, where) ==
    LET position == {k \in 1..Len(ranking) :
                        ranking[k] \in Matching(collection, where)}
        n == IF n_results < Cardinality(position) THEN n_results
             ELSE Cardinality(position)
        at(i) == Kth(position, i)
    IN  [ids |-> [i \in 1..n |-> ranking[at(i)]],
         documents |-> [i \in 1..n |-> collection[ranking[at(i)]].document],
         metadatas |-> [i \in 1..n |-> collection[ranking[at(i)]].metadata],
         distances |-> [i \in 1..n |-> Distance(at(i))]]

\* a formatting that hands the hits back farthest first
FormatResultsReversed(results) ==
    LET n == Len(results.ids)
    IN  [i \in 1..n |-> [id |-> results.ids[n + 1 - i],
                         document |-> results.documents[n + 1 - i],
                         metadata |-> results.metadatas[n + 1 - i],
                         distance |-> results.distances[n + 1 - i]]]

\* "for i in range(len(results['ids'][0])): formatted_results.append(...)"
FormatResults(results) ==
    [i \in 1..Len(results.ids) |-> [id |-> results.ids[i],
                                    document |-> results.documents[i],
                                    metadata |-> results.metadatas[i],
                                    distance |-> results.distances[i]]]

\* the except branch of search
SearchError == [success |-> FALSE, type |-> "search_error", query |-> <<>>,
                results |-> <<>>, count |-> 0]

NoSearchResult == [success |-> FALSE, type |-> "none", query |-> <<>>,
                   results |-> <<>>, count |-> 0]

NoTrace == [encode_calls |-> 0, query_calls |-> 0, where |-> NoneArg,
            reply |-> EmptyReply]

\* RAGSystem.search: what it returns, and the calls it made on the way.
\* collection.query raises when n_results is not positive.
search(collection, query, n_results, file_extensions, ranking, fault) ==
    IF fault = "encode"
    THEN [ret |-> SearchError,
          trace |-> [NoTrace EXCEPT !.encode_calls = 1]]
    ELSE LET where_filter == WhereFilter(file_extensions)
             results == CollectionQuery(collection, ranking, n_results,
                                        where_filter)
             formatted_results == FormatResults(results)
         IN  IF fault = "query" \/ n_results <= 0
             THEN [ret |-> SearchError,
                   trace |-> [encode_calls |-> 1, query_calls |-> 1,
                              where |-> where_filter, reply |-> EmptyReply]]
             ELSE [ret |-> [success |-> TRUE, type |-> "", query |-> query,
                            results |-> formatted_results,
                            count |-> Len(formatted_results)],
                   trace |-> [encode_calls |-> 1, query_calls |-> 1,
                              where |-> where_filter, reply |-> results]]

NoSearchCall == [op |-> "none", query |-> <<>>, n_results |-> 0,
                 file_extensions |-> NoneArg, max_context_length |-> 0]

SearchIdle ==
    /\ s_pc = "idle"
    /\ s_call = NoSearchCall
    /\ s_fault = "none"
    /\ s_trace = NoTrace
    /\ s_ret = NoSearchResult
    /\ s_context = <<>>

\* a collection that index_file has filled from some of the corpus
SearchInit ==
    /\ pc = "idle"
    /\ fs = CorpusFiles
    /\ \E S \in SUBSET Range(Corpus) :
          store = IndexAll(SelectSeq(Corpus, LAMBDA p : p \in S), CorpusFiles,
                           EmptyCollection)
    /\ pending = {}
    /\ extensions = <<>>
    /\ exclude_patterns = <<>>
    /\ indexed_count = 0
    /\ skipped_count = 0
    /\ error_count = 0
    /\ report = NoReport
    /\ stdout = <<>>
    /\ log = <<>>
    /\ last_call = NoCall
    /\ edits = 0
    /\ faults = 0
    /\ SearchIdle

\* a call of search
Search(query, n_results, file_extensions, ranking, fault) ==
    /\ s_pc = "idle"
    /\ LET r == search(store, query, n_results, file_extensions, ranking, fault)
       IN  /\ s_ret' = r.ret
           /\ s_trace' = r.trace
    /\ s_call' = [op |-> "search", query |-> query, n_results |-> n_results,
                  file_extensions |-> file_extensions,
                  max_context_length |-> 0]
    /\ s_fault' = fault
    /\ s_context' = <<>>
    /\ s_pc' = "returned"
    /\ UNCHANGED <<chunk_vars, ctx_vars, index_vars, cli_vars, engine_vars>>

\* a call of get_context_for_query: "search_result = self.search(query,
\* n_results=n_results)", then the context assembly
GetContextForQuery(query, n_results, max_context_length, ranking, fault) ==
    /\ s_pc = "idle"
    /\ LET r == search(store, query, n_results, NoneArg, ranking, fault)
       IN  /\ s_ret' = r.ret
           /\ s_trace' = r.trace
           /\ s_context' = get_context_for_query(r.ret, max_context_length)
    /\ s_call' = [op |-> "context", query |-> query, n_results |-> n_results,
                  file_extensions |-> NoneArg,
                  max_context_length |-> max_context_length]
    /\ s_fault' = fault
    /\ s_pc' = "returned"
    /\ UNCHANGED <<chunk_vars, ctx_vars, index_vars, cli_vars, engine_vars>>

\* the caller takes the value; the next call starts from here
SearchReturn ==
    /\ s_pc = "returned"
    /\ s_pc' = "idle"
    /\ s_call' = NoSearchCall
    /\ s_fault' = "none"
    /\ s_trace' = NoTrace
    /\ s_ret' = NoSearchResult
    /\ s_context' = <<>>
    /\ UNCHANGED <<chunk_vars, ctx_vars, index_vars, cli_vars, engine_vars>>

----------------------------------------------------------------------------
(* The command line of rag_system.py: main *)

Commands == {"index", "search", "context", "stats", "clear"}

NoCommand == [command |-> "none", directory |-> <<>>, extensions |-> NoneArg,
              exclude |-> NoneArg, query |-> <<>>, n_results |-> 0,
              max_length |-> 0]

\* args as parse_args gives them, for each subcommand and for none
CommandLines ==
    {[NoCommand EXCEPT !.command = "index", !.directory = d,
                       !.extensions = e, !.exclude = x] :
        d \in {RootDir, MissingDir}, e \in ExtensionArgs, x \in ExcludeArgs}
    \cup {[NoCommand EXCEPT !.command = "search", !.query = q,
                            !.n_results = n, !.extensions = e] :
             q \in Queries, n \in 0..MaxHits, e \in FilterArgs}
    \cup {[NoCommand EXCEPT !.command = "context", !.query = q,
                            !.n_results = n, !.max_length = m] :
             q \in Queries, n \in 0..MaxHits, m \in {0, MaxContextLength}}
    \cup {[NoCommand EXCEPT !.command = c] : c \in {"stats", "clear", "none"}}

NoOutput == [kind |-> "none"]

\* print(json.dumps(result, indent=2), flush=True)
PrintJson(result) == [kind |-> "json", result |-> result]

\* print(context, flush=True)
PrintText(text) == [kind |-> "text", text |-> text]

\* RAGSystem.get_stats; the store's count or get may raise
get_stats(collection, fault) ==
    IF fault
    THEN [success |-> FALSE, type |-> "stats_error"]
    ELSE [success |-> TRUE, type |-> "",
          total_chunks |-> Cardinality(DOMAIN collection),
          unique_files |-> Cardinality({collection[id].metadata.file_path :
                                           id \in DOMAIN collection})]

\* the call of clear_collection that raises: none, delete_collection, or
\* get_or_create_collection
ClearFaults == {"none", "delete", "create"}

\* RAGSystem.clear_collection: the result and the collection left
clear_collection(collection, fault) ==
    [result |-> IF fault = "none"
                THEN [success |-> TRUE, type |-> ""]
                ELSE [success |-> FALSE, type |-> "clear_error"],
     collection |-> IF fault = "delete" THEN collection ELSE EmptyCollection]

\* no process is running
CliIdle ==
    /\ cli_pc = "shell"
    /\ cli_command = NoCommand
    /\ cli_out = NoOutput
    /\ cli_exit = 0

\* the process starts: parser.parse_args() and RAGSystem()
MainParse(args) ==
    /\ cli_pc \in {"shell", "exited"}
    /\ pc = "idle"
    /\ cli_pc' = "running"
    /\ cli_command' = args
    /\ cli_out' = NoOutput
    /\ cli_exit' = 0
    /\ UNCHANGED <<chunk_vars, ctx_vars, index_vars, search_vars, engine_vars>>

\* "if args.command == "index": result = rag.index_directory(...)": the call
MainIndexCall ==
    /\ cli_pc = "running"
    /\ cli_command.command = "index"
    /\ IndexDirectoryStart(cli_command.directory, cli_command.extensions,
                           cli_command.exclude)

\* index_directory has returned: the result is printed and main returns
MainIndexPrint ==
    /\ cli_pc = "running"
    /\ cli_command.command = "index"
    /\ pc = "reported"
    /\ cli_out' = PrintJson(report)
    /\ cli_exit' = 0
    /\ cli_pc' = "exited"
    /\ UNCHANGED <<cli_command, chunk_vars, ctx_vars, index_vars, search_vars,
                   engine_vars>>

\* "elif args.command == "search""
MainSearch(ranking, fault) ==
    /\ cli_pc = "running"
    /\ cli_command.command = "search"
    /\ cli_out' = PrintJson(search(store, cli_command.query,
                                   cli_command.n_results,
                                   cli_command.extensions, ranking, fault).ret)
    /\ cli_exit' = 0
    /\ cli_pc' = "exited"
    /\ UNCHANGED <<cli_command, chunk_vars, ctx_vars, index_vars, search_vars,
                   engine_vars>>

\* "elif args.command == "context""
MainContext(ranking, fault) ==
    /\ cli_pc = "running"
    /\ cli_command.command = "context"
    /\ cli_out' = PrintText(get_context_for_query(
                      search(store, cli_command.query, cli_command.n_results,
                             NoneArg, ranking, fault).ret,
                      cli_command.max_length))
    /\ cli_exit' = 0
    /\ cli_pc' = "exited"
    /\ UNCHANGED <<cli_command, chunk_vars, ctx_vars, index_vars, search_vars,
                   engine_vars>>

\* "elif args.command == "stats""
MainStats(fault) ==
    /\ cli_pc = "running"
    /\ cli_command.command = "stats"
    /\ cli_out' = PrintJson(get_stats(store, fault))
    /\ cli_exit' = 0
    /\ cli_pc' = "exited"
    /\ UNCHANGED <<cli_command, chunk_vars, ctx_vars, index_vars, search_vars,
                   engine_vars>>

\* "elif args.command == "clear""
MainClear(fault) ==
    /\ cli_pc = "running"
    /\ cli_command.command = "clear"
    /\ pc = "idle"
    /\ LET r == clear_collection(store, fault)
       IN  /\ cli_out' = PrintJson(r.result)
           /\ store' = r.collection
    /\ cli_exit' = 0
    /\ cli_pc' = "exited"
    /\ UNCHANGED <<cli_command, pc, fs, pending, extensions, exclude_patterns,
                   indexed_count, skipped_count, error_count, report, stdout,
                   log, last_call, edits, faults, chunk_vars, ctx_vars,
                   search_vars, engine_vars>>

\* "else: parser.print_help(); sys.exit(1)"
MainHelp ==
    /\ cli_pc = "running"
    /\ cli_command.command = "none"
    /\ cli_out' = [kind |-> "help"]
    /\ cli_exit' = 1
    /\ cli_pc' = "exited"
    /\ UNCHANGED <<cli_command, chunk_vars, ctx_vars, index_vars, search_vars,
                   engine_vars>>

----------------------------------------------------------------------------
(* The inference engine of mlx_inference.py: MLXInferenceEngine *)

\* the model paths the engine is asked to load
ModelPaths == {"/m/one", "/m/two"}

\* None, and the objects the fields of the engine can hold
NoneValue == [is_none |-> TRUE, kind |-> "none", of |-> ""]

PathValue(p) == [is_none |-> FALSE, kind |-> "path", of |-> p]

\* what load(str(model_path)) returns
LoadedModel(p) == [is_none |-> FALSE, kind |-> "model", of |-> p]

LoadedTokenizer(p) == [is_none |-> FALSE, kind |-> "tokenizer", of |-> p]

\* what load(str(model_path)) does: returns, or raises
LoaderOutcomes == {"ok", "raise"}

LoadSuccess(p, cached) ==
    [success |-> TRUE, type |-> "mlx", path |-> p, cached |-> cached]

LoadFailure(type) ==
    [success |-> FALSE, type |-> type, path |-> "", cached |-> FALSE]

\* a cache check that does not look at the path
CacheHitAnyPath(m, mp, p) == ~m.is_none

\* "if self.model is not None and self.model_path == model_path"
CacheHit(m, mp, p) == ~m.is_none /\ mp = PathValue(p)

\* MLXInferenceEngine.load_model: the status it returns, the number of calls
\* of load it made, and the fields it leaves
load_model(m, t, mp, dirs, p, outcome) ==
    IF p \notin dirs
    THEN [reply |-> LoadFailure("path_error"), loader_calls |-> 0,
          model |-> m, tokenizer |-> t, model_path |-> mp]
    ELSE IF CacheHit(m, mp, p)
    THEN [reply |-> LoadSuccess(p, TRUE), loader_calls |-> 0,
          model |-> m, tokenizer |-> t, model_path |-> mp]
    ELSE IF outcome = "raise"
    THEN [reply |-> LoadFailure("load_error"), loader_calls |-> 1,
          model |-> m, tokenizer |-> t, model_path |-> mp]
    ELSE [reply |-> LoadSuccess(p, FALSE), loader_calls |-> 1,
          model |-> LoadedModel(p), tokenizer |-> LoadedTokenizer(p),
          model_path |-> PathValue(p)]

NoLoadCall ==
    [path |-> "", reply |-> LoadFailure("none"), loader_calls |-> 0,
     before |-> [model |-> NoneValue, tokenizer |-> NoneValue,
                 model_path |-> NoneValue, last_loaded |-> NoneValue,
                 on_disk |-> FALSE]]

\* the events generate yields
ModelError == [type |-> "model_error"]
TokenEvent == [type |-> "token"]
CompleteEvent == [type |-> "complete"]
DoneEvent == [type |-> "done"]
GenerationError == [type |-> "generation_error"]

\* an except branch after which the completion signal is still sent
RaiseEventsThenDone(yielded) ==
    Append(Append(yielded, GenerationError), DoneEvent)

\* "except Exception as e: yield {..., "type": "generation_error"}": the
\* generator ends after it
RaiseEvents(yielded) == Append(yielded, GenerationError)

\* __init__: nothing is loaded
EngineInit ==
    /\ engine_pc = "idle"
    /\ model = NoneValue
    /\ tokenizer = NoneValue
    /\ model_path = NoneValue
    /\ model_dirs \in SUBSET ModelPaths
    /\ load_call = NoLoadCall
    /\ events = <<>>
    /\ stream = TRUE
    /\ last_loaded = NoneValue

\* the engine when another part of the program is explored
EngineIdle ==
    /\ EngineInit
    /\ model_dirs = ModelPaths

\* a load_model command
LoadModel(p, outcome) ==
    /\ engine_pc = "idle"
    /\ LET r == load_model(model, tokenizer, model_path, model_dirs, p, outcome)
       IN  /\ model' = r.model
           /\ tokenizer' = r.tokenizer
           /\ model_path' = r.model_path
           /\ load_call' = [path |-> p, reply |-> r.reply,
                            loader_calls |-> r.loader_calls,
                            before |-> [model |-> model,
                                        tokenizer |-> tokenizer,
                                        model_path |-> model_path,
                                        last_loaded |-> last_loaded,
                                        on_disk |-> p \in model_dirs]]
           /\ last_loaded' = IF r.reply.success /\ ~r.reply.cached
                             THEN PathValue(p)
                             ELSE last_loaded
    /\ engine_pc' = "loaded"
    /\ UNCHANGED <<model_dirs, events, stream, chunk_vars, ctx_vars,
                   index_vars, search_vars, cli_vars>>

\* an unload_model command
UnloadModel ==
    /\ engine_pc = "idle"
    /\ model' = NoneValue
    /\ tokenizer' = NoneValue
    /\ model_path' = NoneValue
    /\ last_loaded' = NoneValue
    /\ engine_pc' = "unloaded"
    /\ UNCHANGED <<model_dirs, load_call, events, stream, chunk_vars,
                   ctx_vars, index_vars, search_vars, cli_vars>>

\* a generate command, up to the first yield: the model_error event, or the
\* call of mlx_lm's generate
GenerateStart(s) ==
    /\ engine_pc = "idle"
    /\ stream' = s
    /\ IF model.is_none \/ tokenizer.is_none
       THEN /\ events' = <<ModelError>>
            /\ engine_pc' = "generated"
       ELSE /\ events' = <<>>
            /\ engine_pc' = "generating"
    /\ UNCHANGED <<model, tokenizer, model_path, model_dirs, load_call,
                   last_loaded, chunk_vars, ctx_vars, index_vars,
                   search_vars, cli_vars>>

\* "for token in response: yield {"token": token, "type": "token"}"
YieldToken ==
    /\ engine_pc = "generating"
    /\ stream
    /\ Len(events) < MaxTokens
    /\ events' = Append(events, TokenEvent)
    /\ UNCHANGED <<engine_pc, model, tokenizer, model_path, model_dirs,
                   load_call, stream, last_loaded, chunk_vars, ctx_vars,
                   index_vars, search_vars, cli_vars>>

\* "full_response = "".join(response); yield {..., "type": "complete"}"
YieldComplete ==
    /\ engine_pc = "generating"
    /\ ~stream
    /\ events' = Append(events, CompleteEvent)
    /\ engine_pc' = "completed"
    /\ UNCHANGED <<model, tokenizer, model_path, model_dirs, load_call,
                   stream, last_loaded, chunk_vars, ctx_vars, index_vars,
                   search_vars, cli_vars>>

\* "yield {"type": "done", "success": True}", after the last token or after
\* the complete event
YieldDone ==
    /\ \/ engine_pc = "generating" /\ stream
       \/ engine_pc = "completed"
    /\ events' = Append(events, DoneEvent)
    /\ engine_pc' = "generated"
    /\ UNCHANGED <<model, tokenizer, model_path, model_dirs, load_call,
                   stream, last_loaded, chunk_vars, ctx_vars, index_vars,
                   search_vars, cli_vars>>

\* mlx_lm's generate, the iteration over its response or the join raises
GenerateRaise ==
    /\ engine_pc = "generating"
    /\ events' = RaiseEvents(events)
    /\ engine_pc' = "generated"
    /\ UNCHANGED <<model, tokenizer, model_path, model_dirs, load_call,
                   stream, last_loaded, chunk_vars, ctx_vars, index_vars,
                   search_vars, cli_vars>>

\* the command loop of main has printed the outputs and reads the next line
EngineReturn ==
    /\ engine_pc \in {"loaded", "unloaded", "generated"}
    /\ engine_pc' = "idle"
    /\ load_call' = NoLoadCall
    /\ events' = <<>>
    /\ stream' = TRUE
    /\ UNCHANGED <<model, tokenizer, model_path, model_dirs, last_loaded,
                   chunk_vars, ctx_vars, index_vars, search_vars, cli_vars>>

\* a model directory is removed from the disk
RemoveModelDir(p) ==
    /\ engine_pc = "idle"
    /\ p \in model_dirs
    /\ model_dirs' = model_dirs \ {p}
    /\ UNCHANGED <<engine_pc, model, tokenizer, model_path, load_call, events,
                   stream, last_loaded, chunk_vars, ctx_vars, index_vars,
                   search_vars, cli_vars>>

----------------------------------------------------------------------------
(* index_directory on the large directory *)

\* the place of a file of the large directory in the listing
DirOrder(p) == CHOOSE k \in 1..MaxDirFiles : BigFile(k) = p

\* rglob yields the entries in the order of the listing; here by name
FirstPending ==
    CHOOSE p \in pending : \A q \in pending : DirOrder(p) <= DirOrder(q)

\* an empty collection over a tree where at most one file of the large
\* directory is empty or does not decode
ProgressInit ==
    /\ pc = "idle"
    /\ \E k \in 0..MaxDirFiles, bad \in {[kind |-> "text", content |-> <<>>],
                                         [kind |-> "binary", content |-> <<>>]} :
          fs = [f \in Files |-> IF k > 0 /\ f = BigFile(k) THEN bad
                                ELSE [kind |-> "text", content |-> TextOne]]
    /\ store = EmptyCollection
    /\ pending = {}
    /\ extensions = <<>>
    /\ exclude_patterns = <<>>
    /\ indexed_count = 0
    /\ skipped_count = 0
    /\ error_count = 0
    /\ report = NoReport
    /\ stdout = <<>>
    /\ log = <<>>
    /\ last_call = NoCall
    /\ edits = 0
    /\ faults = 0

----------------------------------------------------------------------------
(* Specifications *)

\* search, the command line and the engine when another part is explored
OtherIdle == SearchIdle /\ CliIdle /\ EngineIdle

InitChunk == ChunkCall /\ ContextIdle /\ IndexIdle /\ OtherIdle

NextChunk == SplitCall

SpecChunk == InitChunk /\ [][NextChunk]_vars

InitContext == ChunkIdle /\ ContextCall /\ IndexIdle /\ OtherIdle

NextContext == GetContext

SpecContext == InitContext /\ [][NextContext]_vars

Init == ChunkIdle /\ ContextIdle /\ IndexInit /\ OtherIdle

Next ==
    \/ \E d \in {RootDir, MissingDir}, e \in ExtensionArgs, x \in ExcludeArgs :
          IndexDirectoryStart(d, e, x)
    \/ \E p \in pending : VisitDirectory(p)
    \/ \E p \in pending : VisitSkipped(p)
    \/ \E p \in pending, f \in Faults : VisitIndex(p, f)
    \/ IndexDirectoryFinish
    \/ \E p \in TreeFiles \cup {MissingFile}, f \in Faults : IndexFileCall(p, f)
    \/ Return
    \/ \E c \in FileStates : EditFile(c)
    \/ ClearCollection

Spec == Init /\ [][Next]_vars

InitSearch == ChunkIdle /\ ContextIdle /\ SearchInit /\ CliIdle /\ EngineIdle

NextSearch ==
    \/ \E q \in Queries, n \in 0..MaxHits, e \in FilterArgs,
          r \in Rankings(store), f \in SearchFaults : Search(q, n, e, r, f)
    \/ \E q \in Queries, n \in 0..MaxHits, m \in {0, MaxContextLength},
          r \in Rankings(store), f \in SearchFaults :
          GetContextForQuery(q, n, m, r, f)
    \/ SearchReturn

SpecSearch == InitSearch /\ [][NextSearch]_vars

InitMain == ChunkIdle /\ ContextIdle /\ IndexIdle /\ OtherIdle

NextMain ==
    \/ \E args \in CommandLines : MainParse(args)
    \/ MainIndexCall
    \/ \E p \in pending : VisitDirectory(p)
    \/ \E p \in pending : VisitSkipped(p)
    \/ \E p \in pending : VisitIndex(p, NoFault)
    \/ IndexDirectoryFinish
    \/ MainIndexPrint
    \/ \E r \in Rankings(store), f \in SearchFaults : MainSearch(r, f)
    \/ \E r \in Rankings(store), f \in SearchFaults : MainContext(r, f)
    \/ \E f \in BOOLEAN : MainStats(f)
    \/ \E f \in ClearFaults : MainClear(f)
    \/ MainHelp
    \/ cli_pc = "exited" /\ Return

SpecMain == InitMain /\ [][NextMain]_vars

InitProgress == ChunkIdle /\ ContextIdle /\ ProgressInit /\ OtherIdle

NextProgress ==
    \/ IndexDirectoryStart(BigDir, NoneArg, NoneArg)
    \/ \E f \in {NoFault, [kind |-> "encode", at |-> 0]} :
          pending # {} /\ VisitIndex(FirstPending, f)
    \/ IndexDirectoryFinish

SpecProgress == InitProgress /\ [][NextProgress]_vars

InitEngine ==
    ChunkIdle /\ ContextIdle /\ IndexIdle /\ SearchIdle /\ CliIdle /\ EngineInit

NextEngine ==
    \/ \E p \in ModelPaths, o \in LoaderOutcomes : LoadModel(p, o)
    \/ UnloadModel
    \/ \E s \in BOOLEAN : GenerateStart(s)
    \/ YieldToken
    \/ YieldComplete
    \/ YieldDone
    \/ GenerateRaise
    \/ EngineReturn
    \/ \E p \in ModelPaths : RemoveModelDir(p)

SpecEngine == InitEngine /\ [][NextEngine]_vars

----------------------------------------------------------------------------
(* Properties of context assembly, checked under SpecContext *)

\* the summed lengths of the first k formatted entries
RECURSIVE SumEntryLen(_, _)
SumEntryLen(results, k) ==
    IF k = 0 THEN 0
    ELSE SumEntryLen(results, k - 1) + Len(FormatEntry(results[k]))

\* the length of the longest prefix whose summed entry lengths fit the budget
LongestFittingPrefix(results, budget) ==
    LET fits == {k \in 0..Len(results) : SumEntryLen(results, k) <= budget}
    IN  CHOOSE k \in fits : \A j \in fits : j <= k

\* C1: the string returned by get_context_for_query is never longer than
\* max_context_length, the separators of the join included.
C1_ContextWithinBudget ==
    ctx_pc = "returned" => Len(ctx_ret) <= ctx_max

\* C7: the context returned is the join of exactly the longest prefix of the
\* hits whose summed formatted lengths fit max_context_length; nothing after
\* the first hit that does not fit is included, and with no hit, or a first
\* hit that alone does not fit, the context is empty.
C7_GreedyPrefix ==
    (ctx_pc = "returned" /\ ctx_search.success) =>
        LET results == ctx_search.results
            k == LongestFittingPrefix(results, ctx_max)
        IN  /\ ctx_ret = Join(<<NL>>, [i \in 1..k |-> FormatEntry(results[i])])
            /\ (k = 0 => ctx_ret = <<>>)

\* C7 witness: a call returned where some hit was accepted, the next one did
\* not fit, and a later, shorter hit would still have fitted.
C7_Witness ==
    /\ ctx_pc = "returned"
    /\ ctx_search.success
    /\ LET results == ctx_search.results
           k == LongestFittingPrefix(results, ctx_max)
       IN  /\ k >= 1
           /\ k < Len(results)
           /\ \E j \in (k + 2)..Len(results) :
                  SumEntryLen(results, k) + Len(FormatEntry(results[j])) <= ctx_max
           /\ ctx_ret # <<>>

----------------------------------------------------------------------------
(* Properties of the chunker, checked under SpecChunk *)

\* the text has exactly three lines, of lengths m, m and m/2
ThreeLineScenario(text, m) ==
    LET lines == SplitLines(text)
    IN  /\ m > 0
        /\ Len(lines) = 3
        /\ Len(lines[1]) = m
        /\ Len(lines[2]) = m
        /\ 2 * Len(lines[3]) = m

\* C3: a text of three lines of lengths M, M and M/2, chunked with
\* max_chunk_size = M, yields exactly the three lines, in order, and no
\* other chunk.
C3_ThreeLinesThreeChunks ==
    (chunk_pc = "returned" /\ ThreeLineScenario(arg_text, arg_max)) =>
        ret_chunks = SplitLines(arg_text)

\* C4: the empty string yields the empty sequence of chunks, for every
\* max_chunk_size.
C4_EmptyTextNoChunks ==
    (chunk_pc = "returned" /\ arg_text = <<>>) => ret_chunks = <<>>

\* the chunks occur in text from position pos on, in order, each followed by
\* a separator made of whitespace only (of any length, even none), and
\* together with those separators they cover the text to its end
RECURSIVE Rejoins(_, _, _)
Rejoins(text, pos, chunks) ==
    IF chunks = <<>>
    THEN pos = Len(text) + 1
    ELSE LET chunk == Head(chunks)
             stop == pos + Len(chunk)
         IN  /\ stop <= Len(text) + 1
             /\ SubSeq(text, pos, stop - 1) = chunk
             /\ IF Len(chunks) = 1
                THEN stop = Len(text) + 1
                ELSE \E k \in 0..(Len(text) + 1 - stop) :
                        /\ \A j \in stop..(stop + k - 1) : IsSpace(text[j])
                        /\ Rejoins(text, stop + k, Tail(chunks))

\* C5: for M > 0 the chunks, rejoined in order with the separators of the
\* original text between them, give back the text exactly; nothing inside a
\* chunk is dropped or replaced, runs of whitespace in long lines included.
C5_LosslessChunking ==
    (chunk_pc = "returned" /\ arg_max > 0) => Rejoins(arg_text, 1, ret_chunks)

\* the chunk is one word of a line of the text that is longer than m
WordOfLongLine(chunk, text, m) ==
    LET lines == SplitLines(text)
    IN  /\ \A j \in 1..Len(chunk) : ~IsSpace(chunk[j])
        /\ \E i \in 1..Len(lines) :
              /\ Len(lines[i]) > m
              /\ \E w \in 1..Len(SplitWords(lines[i])) :
                    SplitWords(lines[i])[w] = chunk

\* C6: for M > 0 a chunk is longer than M only if it is a single word, with
\* no whitespace in it, of a line longer than M; every other chunk, joined
\* from lines or from words, has length at most M.
C6_OnlyWordsExceed ==
    (chunk_pc = "returned" /\ arg_max > 0) =>
        \A i \in 1..Len(ret_chunks) :
            Len(ret_chunks[i]) > arg_max =>
                WordOfLongLine(ret_chunks[i], arg_text, arg_max)

\* C6 witness: a call with M > 0 returned a chunk longer than M, a single
\* word, and with it a chunk of two words of the same long line joined by one
\* space.
C6_Witness ==
    /\ chunk_pc = "returned"
    /\ arg_max > 0
    /\ \E i \in 1..Len(ret_chunks) : Len(ret_chunks[i]) > arg_max
    /\ \E i \in 1..Len(ret_chunks) :
          /\ Len(SplitWords(ret_chunks[i])) = 2
          /\ \A j \in 1..Len(SplitLines(arg_text)) :
                SplitLines(arg_text)[j] # ret_chunks[i]

----------------------------------------------------------------------------
(* Properties of the indexer, checked under Spec *)

\* the files of the walked tree
WalkedFiles == Rglob(RootDir) \cap Files

\* the files of the walked tree that pass the extension and exclude filters
EligibleFiles ==
    {p \in WalkedFiles :
        PathSuffix(p) \in Range(extensions) /\ ~Excluded(p, exclude_patterns)}

\* the index_file calls of this walk that stored the document's chunks
Stored == {k \in 1..Len(log) : log[k].result.success}

\* C2: the indexed count of a batch report is the number of documents whose
\* chunks index_file stored, and every other file of the tree (filtered out,
\* empty, whitespace-only, undecodable) is counted under skipped or errors;
\* with one empty and one valid document, indexed is 1.
C2_ReportCountsStored ==
    (pc = "reported" /\ report.success) =>
        /\ report.indexed = Cardinality(Stored)
        /\ report.skipped + report.errors
              = Cardinality(WalkedFiles) - Cardinality(Stored)

\* C8: after index_file has succeeded on a document, the record under the
\* chunk id of (path, N) holds chunk N of the document as it is now, with the
\* metadata of this run, for every N below the chunk count; a record of an
\* earlier run does not survive under that id.
C8_ReindexOverwrites ==
    (pc = "indexed" /\ last_call.result.success) =>
        LET file_path == last_call.file_path
            chunks == _split_into_chunks(fs[file_path].content, IndexChunkSize)
        IN  \A n \in 0..(Len(chunks) - 1) :
                LET chunk_id == ChunkId(Md5HexDigest(file_path), n)
                IN  /\ chunk_id \in DOMAIN store
                    /\ store[chunk_id].document = chunks[n + 1]
                    /\ store[chunk_id].metadata.total_chunks = Len(chunks)

\* the (path, chunk index, chunk id) triples of the index_file calls on record
AssignedIds ==
    UNION { { [file_path |-> c.file_path, chunk_index |-> k - 1,
               chunk_id |-> c.ids[k]] : k \in 1..Len(c.ids) }
            : c \in Range(log) \cup {last_call} }

\* C9: the chunk id is a function of the document path and the chunk index
\* alone, and an injective one: two assigned ids are equal exactly when path
\* and index are equal, and a record stored by an earlier run for the same
\* path and index, whatever its text, lies under the same id.
C9_ChunkIdInjective ==
    /\ \A x, y \in AssignedIds :
          (x.chunk_id = y.chunk_id)
              <=> (x.file_path = y.file_path /\ x.chunk_index = y.chunk_index)
    /\ \A x \in AssignedIds : \A id \in DOMAIN store :
          (/\ store[id].metadata.file_path = x.file_path
           /\ store[id].metadata.chunk_index = x.chunk_index)
              <=> (id = x.chunk_id)

\* C9 witness: a walk returned that assigned ids to two documents, two of
\* them to one document, one of them to a chunk position that an earlier run
\* had stored with another text.
C9_Witness ==
    /\ pc = "reported"
    /\ \E x, y \in AssignedIds : x.file_path # y.file_path
    /\ \E x \in AssignedIds : x.chunk_index = 1
    /\ \E k \in 1..Len(log) :
          /\ log[k].result.success
          /\ store[log[k].ids[1]].document
                # _split_into_chunks(fs[log[k].file_path].content, IndexChunkSize)[1]

\* C10: a batch that has started always ends in a success-tagged report, and
\* by then index_file has been called once on every eligible document of the
\* tree, those that come after a failed one included.
C10_BatchTolerant ==
    /\ (pc = "walking" /\ pending = {}) =>
          {log[k].file_path : k \in 1..Len(log)} = EligibleFiles
    /\ (pc = "reported" /\ report.type # "path_error") =>
          /\ report.success
          /\ {log[k].file_path : k \in 1..Len(log)} = EligibleFiles
          /\ Len(log) = Cardinality(EligibleFiles)

\* C10 witness: a batch reported after a document failed by a collaborator's
\* error, another was rejected as empty or undecodable, and a document was
\* attempted after each of them.
C10_Witness ==
    /\ pc = "reported"
    /\ report.success
    /\ \E j, k \in 1..Len(log) :
          /\ j < k /\ k < Len(log)
          /\ log[j].result.type \in {"empty_file", "encoding_error", "indexing_error"}
          /\ log[k].result.type \in {"empty_file", "encoding_error", "indexing_error"}
          /\ log[j].result.type # log[k].result.type
          /\ log[Len(log)].result.success

----------------------------------------------------------------------------
(* Properties of search and get_context_for_query, checked under SpecSearch *)

\* the file_extensions argument names at least one extension
FilterGiven(file_extensions) ==
    ~file_extensions.is_none /\ file_extensions.value # <<>>

\* the records of the store the call's filter admits
MatchingRecords ==
    {id \in DOMAIN store :
        FilterGiven(s_call.file_extensions) =>
            store[id].metadata.file_extension
                \in Range(s_call.file_extensions.value)}

\* C11: a successful search returns the store's ranked reply unchanged: the
\* same hits in the same order (non-decreasing distance), none dropped, at
\* most n_results of them; exactly n_results when the store holds at least
\* n_results matching records, and all the matching records when it holds
\* fewer (even none), without an error.
C11_RankedReplyUnchanged ==
    (s_pc = "returned" /\ s_call.op = "search" /\ s_fault = "none"
        /\ s_call.n_results > 0) =>
        LET hits == s_ret.results
            reply == s_trace.reply
            n == s_call.n_results
            matching == Cardinality(MatchingRecords)
        IN  /\ s_ret.success
            /\ s_ret.count = Len(hits)
            /\ Len(hits) = Len(reply.ids)
            /\ \A i \in 1..Len(hits) :
                  /\ hits[i].id = reply.ids[i]
                  /\ hits[i].document = reply.documents[i]
                  /\ hits[i].metadata = reply.metadatas[i]
                  /\ hits[i].distance = reply.distances[i]
            /\ \A i, j \in 1..Len(hits) :
                  i < j => hits[i].distance <= hits[j].distance
            /\ Len(hits) <= n
            /\ Len(hits) = IF matching >= n THEN n ELSE matching

\* a search that returned exactly n_results hits, two or more, out of a
\* larger store
C11_Witness ==
    /\ s_pc = "returned"
    /\ s_call.op = "search"
    /\ s_ret.success
    /\ s_ret.count = s_call.n_results
    /\ s_ret.count >= 2
    /\ s_ret.results[1].id # s_ret.results[2].id
    /\ Cardinality(DOMAIN store) > s_call.n_results

PyExt == <<".", "p", "y">>

\* the store of the scenario: two .py records and three .md records
ScenarioStore ==
    /\ Cardinality({id \in DOMAIN store :
                       store[id].metadata.file_extension = PyExt}) = 2
    /\ Cardinality({id \in DOMAIN store :
                       store[id].metadata.file_extension # PyExt}) = 3

\* C12: with a non-empty extension filter every returned hit has a
\* file_extension of the filter set (k = 3 and filter {.py} against two .py
\* and three .md records: at most two hits, all .py); with the filter absent
\* or empty no metadata predicate is passed to the store.
C12_ExtensionFilter ==
    (s_pc = "returned" /\ s_call.op = "search") =>
        LET hits == s_ret.results
            filter == s_call.file_extensions
        IN  /\ (FilterGiven(filter) /\ s_ret.success) =>
                  \A i \in 1..Len(hits) :
                      hits[i].metadata.file_extension \in Range(filter.value)
            /\ ~FilterGiven(filter) => s_trace.where.is_none
            /\ (ScenarioStore /\ s_call.n_results = 3 /\ s_ret.success
                    /\ filter = ListArg(<<PyExt>>)) =>
                  /\ Len(hits) <= 2
                  /\ \A i \in 1..Len(hits) :
                        hits[i].metadata.file_extension = PyExt

\* the scenario, answered with both .py records
C12_Witness ==
    /\ s_pc = "returned"
    /\ s_call.op = "search"
    /\ ScenarioStore
    /\ s_call.n_results = 3
    /\ s_call.file_extensions = ListArg(<<PyExt>>)
    /\ s_ret.success
    /\ s_ret.count = 2

\* C13: when the query embedding or the store query fails during search or
\* get_context_for_query, the caller receives a result tagged as a failure,
\* distinguishable from every successful outcome (search: success is false;
\* get_context_for_query: not the empty context that means "no context
\* fits"), and the failing collaborator call is made once only.
C13_FailureSurfaced ==
    (s_pc = "returned" /\ s_fault # "none") =>
        /\ s_trace.encode_calls <= 1
        /\ s_trace.query_calls <= 1
        /\ s_call.op = "search" => ~s_ret.success
        /\ s_call.op = "context" => s_context # <<>>

----------------------------------------------------------------------------
(* Properties of the command line, checked under SpecMain *)

\* the terminal result printed says success: false
ReportsFailure(out) == out.kind = "json" /\ ~out.result.success

\* C14: for every command of the command line (index, search, context,
\* stats, clear) the exit status is non-zero if and only if the terminal
\* result printed reports failure.
C14_ExitStatusReportsFailure ==
    (cli_pc = "exited" /\ cli_command.command \in Commands) =>
        (cli_exit # 0 <=> ReportsFailure(cli_out))

----------------------------------------------------------------------------
(* Properties of the progress notifications, checked under SpecProgress *)

\* the number of documents indexed with success among the first k calls
SuccessesUpTo(k) == Cardinality({j \in 1..k : log[j].result.success})

\* the calls after which the number of documents indexed with success has
\* just reached a multiple of ProgressEvery
ReachesMultiple ==
    {k \in 1..Len(log) :
        log[k].result.success /\ SuccessesUpTo(k) % ProgressEvery = 0}

\* C15: a progress notification is emitted exactly when the number of
\* documents indexed with success reaches a positive multiple of 10, with
\* that count and the name of the document just indexed; the counts of one
\* run increase strictly, and a document whose indexing failed gives none.
C15_ProgressEveryTenIndexed ==
    /\ Len(stdout) = Cardinality(ReachesMultiple)
    /\ \A i \in 1..Len(stdout) :
          LET k == Kth(ReachesMultiple, i)
          IN  stdout[i] = [type |-> "progress",
                           indexed |-> SuccessesUpTo(k),
                           current_file |-> PathName(log[k].file_path)]
    /\ \A i, j \in 1..Len(stdout) :
          i < j => stdout[i].indexed < stdout[j].indexed

----------------------------------------------------------------------------
(* Properties of the stored chunks of one document, checked under Spec *)

\* the records the store holds for a document
RecordsOf(file_path) ==
    {id \in DOMAIN store : store[id].metadata.file_path = file_path}

\* C16: after successful index_file calls (a re-index after an edit that
\* leaves fewer chunks included) the store holds, for the document, exactly
\* one record per chunk_index in 0..total_chunks-1 of the latest run, all
\* with that total_chunks, and no record with a chunk_index at or above it.
C16_OneRecordPerChunk ==
    (pc = "indexed" /\ last_call.result.success /\ faults = 0) =>
        LET records == RecordsOf(last_call.file_path)
            total_chunks == last_call.result.chunks
        IN  /\ \A k \in 0..(total_chunks - 1) :
                  Cardinality({id \in records :
                                  store[id].metadata.chunk_index = k}) = 1
            /\ \A id \in records :
                  /\ store[id].metadata.total_chunks = total_chunks
                  /\ store[id].metadata.chunk_index < total_chunks

----------------------------------------------------------------------------
(* Properties of the inference engine, checked under SpecEngine *)

\* the load asked for the path of the latest successful load since the last
\* unload
SameAsLastLoaded == load_call.before.last_loaded = PathValue(load_call.path)

AnsweredFromCache == load_call.reply.cached /\ load_call.loader_calls = 0

FieldsUnchanged ==
    /\ model = load_call.before.model
    /\ tokenizer = load_call.before.tokenizer
    /\ model_path = load_call.before.model_path

\* C17, as claimed: load_model(p) answers cached: true without invoking the
\* loader if and only if the latest successful load since the last unload was
\* for p; otherwise it invokes the loader exactly once; a failed load leaves
\* model, tokenizer and path unchanged.
C17_CachedIffLastLoaded ==
    engine_pc = "loaded" =>
        /\ AnsweredFromCache <=> SameAsLastLoaded
        /\ ~SameAsLastLoaded => load_call.loader_calls = 1
        /\ ~load_call.reply.success => FieldsUnchanged

\* C17, amended: for a path that exists on disk, load_model(p) answers
\* cached: true without invoking the loader if and only if the latest
\* successful load since the last unload was for p, and otherwise invokes
\* the loader exactly once; for a path that does not exist it answers
\* path_error without invoking the loader; a failed load leaves model,
\* tokenizer and path unchanged.
C17_CachedIffLastLoadedOnDisk ==
    engine_pc = "loaded" =>
        /\ load_call.before.on_disk =>
              /\ AnsweredFromCache <=> SameAsLastLoaded
              /\ ~SameAsLastLoaded => load_call.loader_calls = 1
        /\ ~load_call.before.on_disk =>
              /\ ~load_call.reply.success
              /\ load_call.reply.type = "path_error"
              /\ load_call.loader_calls = 0
        /\ ~load_call.reply.success => FieldsUnchanged

\* a load answered from the cache
C17_Witness ==
    /\ engine_pc = "loaded"
    /\ load_call.before.on_disk
    /\ AnsweredFromCache
    /\ SameAsLastLoaded
    /\ model = LoadedModel(load_call.path)

EventTypes == [i \in 1..Len(events) |-> events[i].type]

\* C18: every generate call yields a finite stream of one of three shapes:
\* with no model loaded, one model_error event and nothing else; on success,
\* token events (or one complete event when not streaming) and then one done
\* event, the last; on a failure, a generation_error event as the last and no
\* done event.  No done event comes before or after an error event.
C18_EventStreamShape ==
    LET n == Len(events)
        types == EventTypes
        last_only == {"done", "model_error", "generation_error"}
    IN  /\ n <= MaxTokens + 2
        /\ \A i \in 1..(n - 1) : types[i] \notin last_only
        /\ engine_pc = "generated" =>
              \/ /\ model.is_none \/ tokenizer.is_none
                 /\ events = <<ModelError>>
              \/ /\ ~model.is_none /\ ~tokenizer.is_none
                 /\ types[n] = "done"
                 /\ stream => \A i \in 1..(n - 1) : types[i] = "token"
                 /\ ~stream => n = 2 /\ types[1] = "complete"
              \/ /\ ~model.is_none /\ ~tokenizer.is_none
                 /\ types[n] = "generation_error"
                 /\ \A i \in 1..(n - 1) : types[i] = "token"
                 /\ ~stream => n = 1

\* a streamed generation: tokens, then done
C18_Witness ==
    /\ engine_pc = "generated"
    /\ stream
    /\ Len(events) >= 2
    /\ EventTypes[1] = "token"
    /\ EventTypes[Len(events)] = "done"

====
